---- MODULE Spec2Model ----
(***************************************************************************)
(* Sage Creek Wrestling Analyzer (src/app.py): a Streamlit script that is  *)
(* executed top to bottom once per user interaction.  An action of this    *)
(* module is one execution of the script for one kind of interaction; the  *)
(* execution that streams an analysis is split at the chunks of the        *)
(* stream.  The state that survives between executions is the              *)
(* st.session_state dictionary, the temporary files on local disk and the  *)
(* deployment's secrets; `run` records the execution in progress or the    *)
(* last one: the vendor calls it made, in order, and what it rendered.     *)
(*                                                                         *)
(* Vendor SDK calls (genai.Client, client.files.upload, the types.*        *)
(* request builders, generate_content_stream, generate_content,            *)
(* ElevenLabs voices.get_all and text_to_speech.convert) are black boxes:  *)
(* each either raises or returns, and what it returns is drawn from small  *)
(* sets.  The file does not itself import the name `types` it uses at      *)
(* lines 237-261 and 298, and takes Client from google.generativeai; the   *)
(* raising outcomes of the "client" and "build" stages cover a runtime in  *)
(* which these names do not resolve (every analysis and every audio script *)
(* then ends in the handler's error message), the returning outcomes a     *)
(* runtime that provides them.                                             *)
(***************************************************************************)
EXTENDS Integers, Sequences, FiniteSets, TLC

VARIABLES
    secrets,    \* st.secrets: [google, elevenlabs], fixed for the deployment
    session,    \* st.session_state: a dictionary, key -> value
    disk,       \* paths of the temporary video files that exist
    run,        \* the last execution of the script: input, calls, page
    analysed,   \* history: some 'Get Analysis' has stored a result
    listened    \* history: 'Listen to Analysis' has been clicked

vars == <<secrets, session, disk, run, analysed, listened>>

(***************************************************************************)
(* Bounds of the model.                                                    *)
(***************************************************************************)
MaxChunks == 2      \* chunks in one inference stream
MaxFiles == 3       \* temporary files the disk can hold

(***************************************************************************)
(* Python values.                                                          *)
(***************************************************************************)
None == "None"
Missing == "<missing>"      \* a key that st.secrets does not hold
Unbound == "<unbound>"      \* a script variable that was never assigned

\* bool(v) of an Optional[str]
Truthy(v) == v # None /\ v # ""

RECURSIVE Concat(_)
\* result_text = ""; for c in chunks: result_text += c
Concat(chunks) ==
    IF chunks = <<>> THEN "" ELSE Head(chunks) \o Concat(Tail(chunks))

\* d[k] = v on a dictionary
Put(d, k, v) == [x \in DOMAIN d \cup {k} |-> IF x = k THEN v ELSE d[x]]

Call(op, arg) == [op |-> op, arg |-> arg]

(***************************************************************************)
(* Startup: API keys (lines 17-27).                                        *)
(***************************************************************************)
\* [google][api_key]: absent, empty or set
GoogleSecrets == {Missing, "", "key"}

\* [elevenlabs][api_key]: absent, empty or set
ElevenLabsSecrets == {Missing, "", "key"}

\* st.secrets["google"]["api_key"] raises KeyError when the entry is absent
SecretsLookupRaises(sec) == sec.google = Missing

API_KEY_GOOGLE(sec) == sec.google

\* st.secrets.get("elevenlabs", {}).get("api_key", None)
API_KEY_ELEVENLABS(sec) ==
    IF sec.elevenlabs = Missing THEN None ELSE sec.elevenlabs

\* Mutant: the else branch of lines 25-27 does not stop the script.
StartupHaltsOnLookupOnly(sec) == SecretsLookupRaises(sec)

\* The run ends at startup: uncaught KeyError at line 18, or st.stop() at 27.
StartupHalts(sec) ==
    SecretsLookupRaises(sec) \/ ~Truthy(API_KEY_GOOGLE(sec))

(***************************************************************************)
(* Session state initialization (lines 166-176).                           *)
(***************************************************************************)
SessionDefaults ==
    [analysis_result |-> None, audio_script |-> None,
     audio_generated |-> FALSE, show_audio_options |-> FALSE,
     processing_status |-> ""]

SessionKeys == DOMAIN SessionDefaults

\* Mutant: the keys are set without the `not in` tests.
SessionReset(s) ==
    [k \in DOMAIN s \cup SessionKeys |->
        IF k \in SessionKeys THEN SessionDefaults[k] ELSE s[k]]

SessionInit(s) ==
    [k \in DOMAIN s \cup SessionKeys |->
        IF k \in DOMAIN s THEN s[k] ELSE SessionDefaults[k]]

(***************************************************************************)
(* Temporary video file (lines 326-328, 415).                              *)
(***************************************************************************)
Paths == {"/tmp/v" \o ToString(i) \o ".mp4" : i \in 1..MaxFiles}

\* NamedTemporaryFile(delete=False): a file under a name not in use
temp_video(d, path) == d \cup {path}

\* Path(video_path).unlink(missing_ok=True)
Unlink(d, path) == d \ {path}

(***************************************************************************)
(* generate_analysis (lines 179-274) is a generator; the 'Get Analysis'    *)
(* handler (lines 354-415) drives it chunk by chunk.  The vendor decides   *)
(* where, if anywhere, an exception is raised, the processing state the    *)
(* uploaded handle is in when the inference call is reached, and the text  *)
(* of each chunk of the stream.                                            *)
(***************************************************************************)
FileStates == {"PROCESSING", "ACTIVE", "FAILED"}

\* chunk.text; a chunk without text (None) is skipped like an empty one
ChunkTexts == {"", "a", "b"}

\* Where the statements before the first chunk can raise: genai.Client
\* (181), open/files.upload (184-185), the request builders (236-261).
SetupStages == {"client", "upload", "build"}

AnalysisStages == SetupStages \cup {"stream"}

\* The vendor calls generate_analysis makes, in order, when it raises at
\* `stage` or reaches the stream: line 185, then line 265.  Nothing in
\* between reads the state of the uploaded handle.
AnalysisCalls(video_path, stage, file_state) ==
    IF stage = "client" THEN <<>>
    ELSE IF stage \in {"upload", "build"}
         THEN <<Call("files.upload", video_path)>>
         ELSE <<Call("files.upload", video_path),
                Call("generate_content_stream", file_state)>>

\* `if chunk.text:` (line 270)
YieldsChunk(text) == Truthy(text)

\* Mutant: the chunk is put in front of the text collected so far.
CollectInFront(result_text, text) ==
    IF YieldsChunk(text) THEN text \o result_text ELSE result_text

\* One chunk of the stream: lines 270-272 and 387.
Collect(result_text, text) ==
    IF YieldsChunk(text) THEN result_text \o text ELSE result_text

StatusAnalyzing == "Analyzing wrestling technique..."
StatusComplete == "Analysis complete! Review your feedback below."

MsgQueryWarning == "Please enter a wrestling technique you want analyzed."
MsgAnalysisError == "Analysis error"
MsgRetryHint == "Try uploading a shorter video or check your internet connection."

\* `if not user_query:` (line 355)
QueryGiven(user_query) == Truthy(user_query)

\* Mutant: the handler clears the previous result before it starts.
BeginAnalysisClearing(s) ==
    [s EXCEPT !.processing_status = StatusAnalyzing, !.analysis_result = None]

\* Lines 361-373: the status the handler leaves before it starts the stream.
BeginAnalysis(s) == [s EXCEPT !.processing_status = StatusAnalyzing]

\* Mutant: the result is stored and the audio state is left as it was.
StoreResultKeepingAudio(s, result_text) ==
    [s EXCEPT !.analysis_result = result_text,
              !.processing_status = StatusComplete]

\* Lines 394-408: store the full result, reset the audio state.
StoreResult(s, result_text) ==
    [s EXCEPT !.analysis_result = result_text,
              !.processing_status = StatusComplete,
              !.audio_generated = FALSE,
              !.show_audio_options = FALSE,
              !.audio_script = None]

\* Mutant: the try statement wraps the stream loop only.
InAnalysisTryStreamOnly(stage) == stage = "stream"

\* The statements of generate_analysis that run inside try: (358) ...
\* except Exception (410): all of them, the generator is driven at line 386.
InAnalysisTry(stage) == stage \in AnalysisStages

\* except Exception as error: (410-412)
AnalysisExcept == {MsgAnalysisError, MsgRetryHint}

\* Mutant: the finally clause does not remove the file.
AnalysisFinallyKeeps(d, video_path) == d

\* finally: (413-415)
AnalysisFinally(d, video_path) == Unlink(d, video_path)

(***************************************************************************)
(* Display of the analysis (lines 417-431).                                *)
(***************************************************************************)
NoDownload == [data |-> None, file_name |-> None, mime |-> None]

\* `if st.session_state.analysis_result:` (line 418)
AnalysisAvailable(s) == Truthy(s.analysis_result)

DisplayAnalysis(s) ==
    IF AnalysisAvailable(s)
    THEN [markdown |-> s.analysis_result,
          download |-> [data |-> s.analysis_result,
                        file_name |-> "wrestling_technique_analysis.md",
                        mime |-> "text/markdown"]]
    ELSE [markdown |-> None, download |-> NoDownload]

\* Lines 434-435, entered with the button clicked.
ListenHandler(s) == [s EXCEPT !.show_audio_options = TRUE]

\* Mutant: the audio options are rendered without the flag.
AudioOptionsAlways(s) == TRUE

\* `if st.session_state.show_audio_options:` (line 437)
AudioOptionsVisible(s) == s.show_audio_options

(***************************************************************************)
(* Voice options (lines 438-470).  The vendor's behaviour vv says whether  *)
(* listing the voices raises, the voices it returns, and what the user has *)
(* chosen in the two widgets.                                              *)
(***************************************************************************)
DefaultVoiceId == "21m00Tcm4TlvDq8ikWAM"

\* The options of the select_slider (lines 455-460).
VoiceStyles == {"Calm", "Balanced", "Intense"}

Voice(name, voice_id) == [name |-> name, voice_id |-> voice_id]

VoiceLists ==
    { <<>>,
      <<Voice("Rachel", "v1"), Voice("Adam", "v2")>>,
      <<Voice("Rachel", "")>> }

VoiceVendor ==
    [raises : {TRUE}, voices : {<<>>}, choice : {0}, voice_style : {"Balanced"}]
    \cup UNION { [raises : {FALSE}, voices : {vs},
                  choice : IF vs = <<>> THEN {0} ELSE 1..Len(vs),
                  voice_style : VoiceStyles] : vs \in VoiceLists }

MsgKeyMissing == "ElevenLabs API key missing."
MsgVoicesWarning == "Could not retrieve voices. Using default voice."
MsgVoiceIssue == "Voice selection issue. Using default voice."

\* st.selectbox(options=..., index=0): the chosen option, None without options
selectbox(options, choice) ==
    IF options = <<>> THEN None ELSE options[choice]

RECURSIVE FirstVoiceId(_, _)
\* next((v.voice_id for v in voices if v.name == name), None)
FirstVoiceId(voices, name) ==
    IF voices = <<>> THEN None
    ELSE IF Head(voices).name = name THEN Head(voices).voice_id
    ELSE FirstVoiceId(Tail(voices), name)

\* Mutant: no fallback to the default voice.
SelectVoiceIdNoFallback(voices, selected_voice_name) ==
    FirstVoiceId(voices, selected_voice_name)

\* Lines 462-465.
SelectVoiceId(voices, selected_voice_name) ==
    LET selected_voice_id == FirstVoiceId(voices, selected_voice_name)
    IN IF ~Truthy(selected_voice_id) THEN DefaultVoiceId ELSE selected_voice_id

\* Lines 440-470.  voice_style is assigned at line 455 only.
VoiceOptions(elevenlabs_api_key, vv) ==
    IF ~Truthy(elevenlabs_api_key)
    THEN [calls |-> <<>>, voice_data |-> <<>>, selected_voice_name |-> Unbound,
          selected_voice_id |-> DefaultVoiceId,
          voice_style |-> Unbound, shown |-> {MsgKeyMissing}]
    ELSE IF vv.raises
    THEN [calls |-> <<Call("voices.get_all", None)>>,
          voice_data |-> <<>>, selected_voice_name |-> Unbound,
          selected_voice_id |-> DefaultVoiceId,
          voice_style |-> Unbound, shown |-> {MsgVoicesWarning}]
    ELSE LET voices_list == [i \in 1..Len(vv.voices) |-> vv.voices[i].name]
             selected_voice_name == selectbox(voices_list, vv.choice)
         IN [calls |-> <<Call("voices.get_all", None)>>,
             voice_data |-> vv.voices,
             selected_voice_name |-> selected_voice_name,
             selected_voice_id |-> SelectVoiceId(vv.voices, selected_voice_name),
             voice_style |-> vv.voice_style,
             shown |-> IF Truthy(FirstVoiceId(vv.voices, selected_voice_name))
                       THEN {} ELSE {MsgVoiceIssue}]

(***************************************************************************)
(* generate_audio_script (lines 277-313) and the 'Generate Audio Analysis' *)
(* handler (lines 472-505).  The vendors' behaviour tv says where, if      *)
(* anywhere, an exception is raised.                                       *)
(***************************************************************************)
AudioStages == {"name", "script_build", "script", "convert"}

AudioVendor == [raise_at : {"script_build", "script", "convert", "never"}]

MsgAudioError == "Audio generation error"
MsgKeyNeeded == "ElevenLabs API key needed for audio."
MsgAudioPlayer == "audio player and download"

\* response.text of the script request for an analysis
ScriptOf(analysis_text) == "script(" \o analysis_text \o ")"

\* audio_bytes: what text_to_speech.convert streams, opaque to the program
AudioBytes == "mp3"

\* Where the try block of lines 474-503 raises first: reading voice_style at
\* line 479 when it was never assigned, else where the vendors raise.
AudioRaiseAt(vo, tv) ==
    IF vo.voice_style = Unbound THEN "name" ELSE tv.raise_at

\* The statements that run inside try: (474) ... except Exception (502).
InAudioTry(stage) == stage \in AudioStages

\* `if elevenlabs_api_key:` (line 473)
AudioKeyPresent(elevenlabs_api_key) == Truthy(elevenlabs_api_key)

\* The handler, entered with the button clicked.
GenerateAudioHandler(s, elevenlabs_api_key, vo, tv) ==
    IF ~AudioKeyPresent(elevenlabs_api_key)
    THEN [session |-> s, calls |-> <<>>, shown |-> {MsgKeyNeeded},
          caught |-> FALSE, propagated |-> FALSE]
    ELSE LET at == AudioRaiseAt(vo, tv)
             audio_script == ScriptOf(s.analysis_result)
             script_call == Call("generate_content", s.analysis_result)
             convert_call == Call("text_to_speech.convert", vo.selected_voice_id)
             s1 == [s EXCEPT !.audio_script = audio_script]
             s2 == [Put(s1, "audio", AudioBytes)
                       EXCEPT !.audio_generated = TRUE]
             caught == at # "never" /\ InAudioTry(at)
         IN [session |-> IF at \in {"name", "script_build", "script"} THEN s
                         ELSE IF at = "convert" THEN s1 ELSE s2,
             calls |-> IF at \in {"name", "script_build"} THEN <<>>
                       ELSE IF at = "script" THEN <<script_call>>
                       ELSE <<script_call, convert_call>>,
             shown |-> IF caught THEN {MsgAudioError}
                       ELSE IF at = "never" THEN {MsgAudioPlayer} ELSE {},
             caught |-> caught,
             propagated |-> at # "never" /\ ~caught]

(***************************************************************************)
(* One execution of the script (lines 17-517).  `run` is the execution in  *)
(* progress or the last one finished.                                      *)
(***************************************************************************)
Queries == {"", "single leg"}

MsgGoogleKey == "Google API Key not found."
MsgUploadPrompt == "Upload a wrestling video"

\* An execution at its first line: nothing called, nothing rendered.
NewRun(click, video, video_path, user_query) ==
    [click |-> click, ended |-> "running", video |-> video,
     video_path |-> video_path, user_query |-> user_query,
     calls |-> <<>>, shown |-> {}, delivered |-> <<>>,
     result_text |-> None, caught |-> FALSE,
     markdown |-> None, download |-> NoDownload,
     voice_data |-> <<>>, selected_voice_name |-> Unbound,
     selected_voice_id |-> None, voice_style |-> Unbound]

NoRun == [NewRun("none", FALSE, None, None) EXCEPT !.ended = "not run"]

\* The run that ends at startup: uncaught KeyError (18) or st.stop() (27).
HaltedRun(sec) ==
    [NewRun("none", FALSE, None, None) EXCEPT
        !.ended = "startup",
        !.shown = IF SecretsLookupRaises(sec) THEN {} ELSE {MsgGoogleKey}]

\* The run without an uploaded video (lines 506-508).
NoVideoRun ==
    [NewRun("none", FALSE, None, None) EXCEPT
        !.ended = "footer", !.shown = {MsgUploadPrompt}]

\* A name NamedTemporaryFile can return: any name not in use.  The program
\* never looks at the name, so one representative is taken.
FreshPath(d) == CHOOSE path \in Paths \ d : TRUE

NoVoiceOptions ==
    [calls |-> <<>>, voice_data |-> <<>>, selected_voice_name |-> Unbound,
     selected_voice_id |-> None, voice_style |-> Unbound, shown |-> {}]

NoAudioHandler(s) ==
    [session |-> s, calls |-> <<>>, shown |-> {}, caught |-> FALSE,
     propagated |-> FALSE]

\* Lines 417-505: what follows the 'Get Analysis' block, for the run r so
\* far and the session s1 it has produced.
PageTail(r, s1, sec, vv, tv) ==
    LET available == AnalysisAvailable(s1)
        page == DisplayAnalysis(s1)
        s2 == IF available /\ r.click = "listen" THEN ListenHandler(s1) ELSE s1
        options == available /\ AudioOptionsVisible(s2)
        elevenlabs_api_key == API_KEY_ELEVENLABS(sec)
        vo == IF options THEN VoiceOptions(elevenlabs_api_key, vv)
              ELSE NoVoiceOptions
        a == IF options /\ r.click = "audio"
             THEN GenerateAudioHandler(s2, elevenlabs_api_key, vo, tv)
             ELSE NoAudioHandler(s2)
    IN [session |-> a.session,
        run |-> [r EXCEPT
                   !.ended = IF a.propagated THEN "exception" ELSE "footer",
                   !.calls = @ \o vo.calls \o a.calls,
                   !.shown = @ \cup vo.shown \cup a.shown,
                   !.caught = @ \/ a.caught,
                   !.markdown = page.markdown,
                   !.download = page.download,
                   !.voice_data = vo.voice_data,
                   !.selected_voice_name = vo.selected_voice_name,
                   !.selected_voice_id = vo.selected_voice_id,
                   !.voice_style = vo.voice_style]]

\* An exception that leaves the 'Get Analysis' block uncaught ends the run.
Propagated(r, s1) == [session |-> s1, run |-> [r EXCEPT !.ended = "exception"]]

\* The end of the try statement of lines 358-415 when its body raised at
\* `stage`: except, finally, then the rest of the page.
AnalysisRaised(r, s1, sec, stage, vv, tv) ==
    IF InAnalysisTry(stage)
    THEN PageTail([r EXCEPT !.caught = TRUE, !.shown = @ \cup AnalysisExcept],
                  s1, sec, vv, tv)
    ELSE Propagated(r, s1)

\* The result was stored by this run (line 395 reached).
Stored(r) == r.click = "get" /\ r.ended = "footer" /\ r.result_text # None
             /\ ~r.caught

Finish(out, d) ==
    /\ session' = out.session
    /\ run' = out.run
    /\ disk' = d
    /\ analysed' = (analysed \/ Stored(out.run))
    /\ listened' = IF Stored(out.run) THEN FALSE
                   ELSE (listened \/ out.run.click = "listen")
    /\ UNCHANGED secrets

\* The vendors' behaviour a run can meet; one representative where the run
\* does not reach the vendor.
NoVoices == CHOOSE vv \in VoiceVendor : vv.raises
NoAudio == CHOOSE tv \in AudioVendor : tv.raise_at = "never"
VoiceEnv(s) ==
    IF /\ AnalysisAvailable(s)
       /\ AudioOptionsVisible(s)
       /\ Truthy(API_KEY_ELEVENLABS(secrets))
    THEN VoiceVendor
    ELSE {NoVoices}

\* No execution is in progress, and the next one gets past startup.
Idle == run.ended # "running" /\ ~StartupHalts(secrets)

(***************************************************************************)
(* Initial state: a new browser session of some deployment.                *)
(***************************************************************************)
Init ==
    /\ secrets \in [google : GoogleSecrets, elevenlabs : ElevenLabsSecrets]
    /\ session = <<>>
    /\ disk = {}
    /\ run = NoRun
    /\ analysed = FALSE
    /\ listened = FALSE

(***************************************************************************)
(* Actions.  Every action but GetAnalysis and StreamChunk is one complete  *)
(* execution of the script; 'Get Analysis' with a stream is GetAnalysis,   *)
(* StreamChunk for every chunk, then StreamEnd or StreamRaise.             *)
(***************************************************************************)
\* Missing or empty Google key: every execution ends at startup.
StartupHalt ==
    /\ StartupHalts(secrets)
    /\ run' = HaltedRun(secrets)
    /\ UNCHANGED <<secrets, session, disk, analysed, listened>>

\* No video in the uploader, so no button to click (lines 506-508).
NoVideoRerun ==
    /\ Idle
    /\ \E out \in {[session |-> SessionInit(session), run |-> NoVideoRun]} :
          Finish(out, disk)

\* A run with a video in which `click` is all that happens: no button
\* ("none": first load, the upload itself, a widget change), 'Close Video
\* Preview' (334-335), 'Listen to Analysis' (434-435).
VideoRerun(click) ==
    /\ Paths \ disk # {}
    /\ LET s == SessionInit(session)
           video_path == FreshPath(disk)
       IN \E vv \in VoiceEnv(IF click = "listen" THEN ListenHandler(s) ELSE s) :
          \E out \in {PageTail(NewRun(click, TRUE, video_path, ""), s,
                               secrets, vv, NoAudio)} :
             Finish(out, temp_video(disk, video_path))

PlainRerun ==
    /\ Idle
    /\ VideoRerun("none")

ClosePreview ==
    /\ Idle
    /\ VideoRerun("close")

\* The button is rendered under the guard of line 418.
ListenToAnalysis ==
    /\ Idle
    /\ session # <<>>
    /\ AnalysisAvailable(session)
    /\ VideoRerun("listen")

\* 'Generate Audio Analysis' (lines 472-505), rendered under the guards of
\* lines 418 and 437.
GenerateAudioAnalysis ==
    /\ Idle
    /\ Paths \ disk # {}
    /\ session # <<>>
    /\ AnalysisAvailable(session)
    /\ AudioOptionsVisible(session)
    /\ LET video_path == FreshPath(disk)
       IN \E vv \in VoiceEnv(session) :
          \E tv \in IF vv.raises THEN {NoAudio} ELSE AudioVendor :
          \E out \in {PageTail(NewRun("audio", TRUE, video_path, ""), session,
                               secrets, vv, tv)} :
             Finish(out, temp_video(disk, video_path))

\* 'Get Analysis' with an empty query (lines 354-356).
GetAnalysisNoQuery ==
    /\ Idle
    /\ Paths \ disk # {}
    /\ LET s == SessionInit(session)
           video_path == FreshPath(disk)
           r == NewRun("get", TRUE, video_path, "")
       IN /\ ~QueryGiven(r.user_query)
          /\ \E vv \in VoiceEnv(s) :
             \E out \in {PageTail([r EXCEPT !.shown = {MsgQueryWarning}], s,
                                  secrets, vv, NoAudio)} :
                Finish(out, temp_video(disk, video_path))

\* 'Get Analysis' with a query, up to the first chunk (lines 357-386 and
\* 181-265): either the setup raises, or the stream is open.
GetAnalysis ==
    /\ Idle
    /\ Paths \ disk # {}
    /\ LET s == SessionInit(session)
           video_path == FreshPath(disk)
           d0 == temp_video(disk, video_path)
           s1 == BeginAnalysis(s)
       IN \E user_query \in Queries \ {""} :
          LET r == [NewRun("get", TRUE, video_path, user_query) EXCEPT
                       !.result_text = ""]
          IN /\ QueryGiven(user_query)
             /\ \/ \E stage \in SetupStages, vv \in VoiceEnv(s1) :
                   \E out \in {AnalysisRaised(
                                 [r EXCEPT !.calls = AnalysisCalls(video_path, stage, None)],
                                 s1, secrets, stage, vv, NoAudio)} :
                      Finish(out, AnalysisFinally(d0, video_path))
                \/ \E file_state \in FileStates :
                      /\ run' = [r EXCEPT !.calls =
                                    AnalysisCalls(video_path, "stream", file_state)]
                      /\ session' = s1
                      /\ disk' = d0
                      /\ UNCHANGED <<secrets, analysed, listened>>

\* The stream delivers a chunk (lines 265-272, 386-392).
StreamChunk ==
    /\ run.ended = "running"
    /\ Len(run.delivered) < MaxChunks
    /\ \E text \in ChunkTexts :
          run' = [run EXCEPT !.delivered = Append(@, text),
                             !.result_text = Collect(@, text)]
    /\ UNCHANGED <<secrets, session, disk, analysed, listened>>

\* The stream ends (lines 394-408, 413-415, and the rest of the page).
\* `delivered` is the state of the open stream and goes with it.
StreamEnd ==
    /\ run.ended = "running"
    /\ \E out \in {PageTail([run EXCEPT !.delivered = <<>>],
                            StoreResult(session, run.result_text),
                            secrets, NoVoices, NoAudio)} :
          Finish(out, AnalysisFinally(disk, run.video_path))

\* The stream raises (lines 410-415, and the rest of the page).  The text
\* collected so far is in a local that nothing reads again; the record of
\* the run drops it.
StreamRaise ==
    /\ run.ended = "running"
    /\ \E vv \in VoiceEnv(session) :
       \E out \in {AnalysisRaised([run EXCEPT !.delivered = <<>>, !.result_text = ""],
                                  session, secrets, "stream", vv, NoAudio)} :
          Finish(out, AnalysisFinally(disk, run.video_path))

Next ==
    \/ StartupHalt
    \/ NoVideoRerun
    \/ PlainRerun
    \/ ClosePreview
    \/ ListenToAnalysis
    \/ GenerateAudioAnalysis
    \/ GetAnalysisNoQuery
    \/ GetAnalysis
    \/ StreamChunk
    \/ StreamEnd
    \/ StreamRaise

Spec == Init /\ [][Next]_vars

(***************************************************************************)
(* Properties.                                                             *)
(***************************************************************************)
Finished == run.ended \in {"footer", "exception"}

HasCall(op) == \E i \in 1..Len(run.calls) : run.calls[i].op = op

NonEmpty(text) == text # None /\ text # ""

\* session[key], an absent key reading as its default
Field(s, key) == IF key \in DOMAIN s THEN s[key] ELSE SessionDefaults[key]

\* The run rendered the audio options and so reached the 'Generate Audio
\* Analysis' button (line 472).
AudioButtonReached ==
    /\ Finished
    /\ run.video
    /\ run.markdown # None
    /\ session.show_audio_options

\* C1: when a run in which 'Get Analysis' was clicked with a non-empty query
\* has ended, normally or after an exception, the temporary video file it
\* wrote does not exist.
C1_TempFileRemoved ==
    (Finished /\ run.click = "get" /\ NonEmpty(run.user_query))
        => run.video_path \notin disk

\* A 'Get Analysis' run whose stream raised has ended, while
\* files of other runs are still on disk.
C1_Witness ==
    /\ Finished
    /\ run.click = "get"
    /\ run.caught
    /\ HasCall("generate_content_stream")
    /\ disk # {}
    /\ run.video_path \notin disk

\* C2: the inference call is never issued while the uploaded handle is
\* still in the processing state.
C2_NoInferenceWhileProcessing ==
    \A i \in 1..Len(run.calls) :
        run.calls[i].op = "generate_content_stream"
            => run.calls[i].arg # "PROCESSING"

\* C3: when the uploaded handle is in the failed state, a 'Get Analysis'
\* run ends having shown a failure message and without storing a result.
C3_FailedHandleSurfaced ==
    (/\ Finished
     /\ run.click = "get"
     /\ \E i \in 1..Len(run.calls) :
           /\ run.calls[i].op = "generate_content_stream"
           /\ run.calls[i].arg = "FAILED")
        => (MsgAnalysisError \in run.shown /\ ~Stored(run))

\* C4 as stated: the step that ends a 'Get Analysis' stream without an
\* exception sets analysis_result to the concatenation in order of the
\* non-empty chunk texts delivered, and the page displays that string and
\* offers it for download as a .md file of type text/markdown.
C4_ResultDisplayed ==
    [][(run.ended = "running" /\ Stored(run')) =>
          LET text == Concat(SelectSeq(run.delivered, NonEmpty))
          IN /\ session'.analysis_result = text
             /\ run'.markdown = text
             /\ run'.download = [data |-> text,
                                 file_name |-> "wrestling_technique_analysis.md",
                                 mime |-> "text/markdown"]]_vars

\* C4 amended: analysis_result is that concatenation; when it is not empty
\* the page displays it and offers it for download as stated, and when it
\* is empty the page displays no analysis and offers no download.
C4_ResultDisplayedIfNonEmpty ==
    [][(run.ended = "running" /\ Stored(run')) =>
          LET text == Concat(SelectSeq(run.delivered, NonEmpty))
          IN /\ session'.analysis_result = text
             /\ text # "" =>
                  /\ run'.markdown = text
                  /\ run'.download = [data |-> text,
                                      file_name |-> "wrestling_technique_analysis.md",
                                      mime |-> "text/markdown"]
             /\ text = "" =>
                  /\ run'.markdown = None
                  /\ run'.download = NoDownload]_vars

\* A stream of two different chunks has ended: their concatenation in
\* order is stored, displayed and offered.
C4_Witness ==
    /\ Stored(run)
    /\ session.analysis_result = "ab"
    /\ run.markdown = "ab"
    /\ run.download.data = "ab"

\* C5: a run without a click leaves analysis_result, audio_script,
\* audio_generated, show_audio_options and processing_status as they were,
\* and two such runs in a row, with the uploader unchanged, display the same
\* analysis text.
C5_RerenderIdempotent ==
    [][(/\ run'.click = "none"
        /\ run'.ended = "footer"
        /\ SessionKeys \subseteq DOMAIN session)
          => /\ \A k \in SessionKeys : session'[k] = session[k]
             /\ (run.click = "none" /\ run.ended = "footer"
                    /\ run.video = run'.video)
                   => run'.markdown = run.markdown]_vars

\* A run without a click displayed the analysis of a session whose audio
\* has been generated.
C5_Witness ==
    /\ run.click = "none"
    /\ run.ended = "footer"
    /\ run.markdown # None
    /\ session.audio_generated
    /\ session.show_audio_options

\* C6: in a run that reaches the 'Generate Audio Analysis' button the voice
\* identifier is never None: it is the default or the voice_id of a voice
\* of the vendor's list, it is the default when the selected name matches no
\* voice of the list, and no exception ends the run.
C6_VoiceIdNeverNone ==
    AudioButtonReached =>
        /\ run.selected_voice_id # None
        /\ \/ run.selected_voice_id = DefaultVoiceId
           \/ \E i \in 1..Len(run.voice_data) :
                 run.voice_data[i].voice_id = run.selected_voice_id
        /\ (\A i \in 1..Len(run.voice_data) :
               run.voice_data[i].name # run.selected_voice_name)
              => run.selected_voice_id = DefaultVoiceId
        /\ run.ended = "footer"

\* The vendor returned no voice, the select box gave None, and the button
\* was reached with the default voice.
C6_Witness ==
    /\ AudioButtonReached
    /\ HasCall("voices.get_all")
    /\ run.voice_data = <<>>
    /\ run.selected_voice_name = None
    /\ run.selected_voice_id = DefaultVoiceId

\* C7: no exception of upload, inference, script generation or speech
\* synthesis leaves its handler: the run ends at the footer, and when the
\* handler caught one the page shows the handler's error message.
C7_ExceptionsCaught ==
    /\ run.ended # "exception"
    /\ (Finished /\ run.caught) =>
          /\ run.click \in {"get", "audio"}
          /\ run.click = "get" => AnalysisExcept \subseteq run.shown
          /\ run.click = "audio" => MsgAudioError \in run.shown

\* The upload raised, was caught and reported, and the run reached the
\* footer.
C7_Witness ==
    /\ run.ended = "footer"
    /\ run.click = "get"
    /\ run.caught
    /\ Len(run.calls) >= 1
    /\ run.calls[1].op = "files.upload"
    /\ ~HasCall("generate_content_stream")
    /\ MsgAnalysisError \in run.shown

\* C8: analysis_result changes only in the step that ends a 'Get Analysis'
\* stream without an exception.
C8_ResultFrame ==
    [][Field(session', "analysis_result") # Field(session, "analysis_result")
          => /\ run.ended = "running"
             /\ run.click = "get"
             /\ Stored(run')
             /\ session'.analysis_result = run.result_text]_vars

\* A 'Get Analysis' raised in a session that held a result, and the result
\* is still there.
C8_Witness ==
    /\ Finished
    /\ run.click = "get"
    /\ run.caught
    /\ HasCall("generate_content_stream")
    /\ NonEmpty(Field(session, "analysis_result"))

\* C9: with the Google key missing or empty no run gets past startup and no
\* vendor is called; with only the text-to-speech key missing or empty runs
\* are not halted, no ElevenLabs call is made, and a 'Generate Audio
\* Analysis' click shows the key error and calls no vendor.
C9_KeysAtStartup ==
    /\ secrets.google \in {Missing, ""} =>
          /\ run.ended \in {"not run", "startup"}
          /\ run.calls = <<>>
          /\ session = <<>>
    /\ (secrets.google = "key" /\ secrets.elevenlabs \in {Missing, ""}) =>
          /\ run.ended # "startup"
          /\ ~HasCall("voices.get_all")
          /\ ~HasCall("text_to_speech.convert")
          /\ (Finished /\ run.click = "audio") =>
                (MsgKeyNeeded \in run.shown /\ run.calls = <<>>)

\* Without a text-to-speech key an analysis was produced and displayed, and
\* 'Generate Audio Analysis' was clicked.
C9_Witness ==
    /\ secrets.elevenlabs = Missing
    /\ analysed
    /\ run.click = "audio"
    /\ run.markdown # None
    /\ MsgKeyNeeded \in run.shown

\* C10: a run makes the script-generation or the speech-synthesis call only
\* with a video uploaded, with a non-empty analysis_result in the session
\* that an earlier successful analysis stored, and with show_audio_options
\* set by a 'Listen to Analysis' click made since then; the script is asked
\* for that analysis_result.
C10_AudioAfterAnalysis ==
    (HasCall("generate_content") \/ HasCall("text_to_speech.convert")) =>
        /\ run.click = "audio"
        /\ run.video
        /\ NonEmpty(session.analysis_result)
        /\ analysed
        /\ listened
        /\ session.show_audio_options
        /\ run.calls[Len(run.calls)].op = "text_to_speech.convert"
              => run.calls[Len(run.calls) - 1].op = "generate_content"
        /\ \A i \in 1..Len(run.calls) :
              run.calls[i].op = "generate_content"
                 => run.calls[i].arg = session.analysis_result

\* Both audio calls were made and the audio was stored, in a session whose
\* earlier runs have left their temporary files behind.
C10_Witness ==
    /\ HasCall("generate_content")
    /\ HasCall("text_to_speech.convert")
    /\ session.audio_generated
    /\ Cardinality(disk) >= 2

\* The speech-synthesis calls of the run, and the voice each was made with.
ConvertVoices ==
    {run.calls[i].arg : i \in {j \in 1..Len(run.calls) :
                                  run.calls[j].op = "text_to_speech.convert"}}

\* C11: when voices.get_all raised in a run in which 'Generate Audio
\* Analysis' was clicked, the run uses the default voice identifier: it
\* requests the audio script, calls speech synthesis with the default
\* identifier, and does not show the audio generation error.  (Such a run
\* meets script and synthesis vendors that do not raise, see
\* GenerateAudioAnalysis: nothing but the program's own code can fail it.)
C11_VoiceListFailureStillSpeaks ==
    (/\ Finished
     /\ run.click = "audio"
     /\ MsgVoicesWarning \in run.shown)
        => /\ run.selected_voice_id = DefaultVoiceId
           /\ HasCall("generate_content")
           /\ ConvertVoices = {DefaultVoiceId}
           /\ MsgAudioError \notin run.shown

\* Every 'Get Analysis' step that stores a result leaves the audio state
\* reset.
ResetOnStore ==
    Stored(run') =>
        /\ session'.audio_generated = FALSE
        /\ session'.show_audio_options = FALSE
        /\ session'.audio_script = None

\* Every other step of a 'Get Analysis' run, the handler's except clause
\* included, leaves the three fields as they were.
AudioStateKept ==
    (run'.click = "get" /\ ~Stored(run')) =>
        \A k \in {"audio_generated", "show_audio_options", "audio_script"} :
            Field(session', k) = Field(session, k)

\* audio_script is None or the script of the analysis_result now stored.
ScriptIsCurrent ==
    \/ Field(session, "audio_script") = None
    \/ Field(session, "audio_script") = ScriptOf(Field(session, "analysis_result"))

\* C12: a 'Get Analysis' that stores its result resets audio_generated,
\* show_audio_options and audio_script; a 'Get Analysis' that raises leaves
\* the three unchanged; and in every state audio_script is None or was
\* generated from the analysis_result the session holds.
C12_AudioStateReset ==
    /\ []ScriptIsCurrent
    /\ [][ResetOnStore /\ AudioStateKept]_vars

\* A 'Get Analysis' has stored a result in a session in which audio had
\* been generated for an earlier analysis: the bytes are still there, the
\* audio state is reset.
C12_Witness ==
    /\ Stored(run)
    /\ "audio" \in DOMAIN session
    /\ session.audio_generated = FALSE
    /\ session.show_audio_options = FALSE
    /\ session.audio_script = None

\* C13: when a run with an uploaded video has ended, whatever was clicked
\* in it, the temporary video file it wrote does not exist.
C13_TempFileRemovedEveryRun ==
    (Finished /\ run.video) => run.video_path \notin disk

====
